---- MODULE Spec2Model ----
(***************************************************************************)
(* Model of the per-instrument inactivity monitor implemented by the       *)
(* React hook useUserInactivityAlerts (hooks/use-user-inactivity-alerts)   *)
(* and of the AlertService calls it awaits.                                *)
(*                                                                         *)
(* now is Date.now() in milliseconds.  The clock advances in steps of      *)
(* ClockStep (200 s), so the 60 s session-check throttle has elapsed       *)
(* between any two distinct instants, an entry of the price history is     *)
(* inside the 5-minute window one step later and outside it two steps      *)
(* later; several events may happen at the same instant.  config.duration  *)
(* is in seconds and lasts two steps.  Prices are integers and the deviation *)
(* threshold is 1, so that 100 -> 101 is exactly at the threshold and      *)
(* 100 -> 102 is beyond it.                                                *)
(***************************************************************************)
EXTENDS Integers, Sequences, FiniteSets, TLC

\* ------------------------------------------------------ program constants
\* now - state.lastMarketStatusCheck > 60000
MARKET_CHECK_MS == 60000
\* Date.now() - 5 * 60 * 1000
FIVE_MINUTES_MS == 5 * 60 * 1000

\* ---------------------------------------------------------------- bounds
MaxSteps == 2
ClockStep == 2 * (FIVE_MINUTES_MS \div 3)
MaxTime == MaxSteps * ClockStep
Tokens == {101}
Prices == {100, 101, 102}
Deviations == {1, 2}
ShortDuration == ClockStep \div 1000
LongDuration == (2 * ClockStep) \div 1000
Durations == {ShortDuration, LongDuration}
MaxBatch == 1
MaxInFlight == 1
\* the 50 of loadRecentAlerts' limit, scaled down as the cache's cap is: the
\* limit stays below the cap
LOAD_LIMIT == 1
\* the 100 of priceHistory .slice(-100), scaled down so that the cap is reached
HISTORY_CAP == 2
\* the 100 of the alerts cache .slice(0, 100), scaled down likewise
ALERTS_CAP == 2


NoUser == "none"
UserId == "u1"

VARIABLES
  now,             \* Date.now()
  user,            \* useAuth().user
  loading,         \* useState loading
  configurations,  \* useState Map<number, UserAlertConfig>
  alerts,          \* useState UserAlertLog[] (recent-alerts cache)
  inactiveSymbols, \* useState Set<number>
  symbolStates,    \* useRef Map<number, SymbolState>
  audioContext,    \* audioContextRef.current is set
  timers,          \* scheduled, not yet run, not cancelled setTimeout callbacks
  oscillators,     \* started oscillators that no SymbolState references
  ticks,           \* the hook's ticks argument, reduced to the latest per token
  marketOpen,      \* shouldAlertsBeActive(instrumentName), the session oracle
  pendingLogs,     \* AlertService.logAlert calls awaiting their result
  pendingSaves,    \* AlertService.saveAlertConfig calls awaiting, per token
  pendingAckAll,   \* AlertService.acknowledgeAllAlerts calls awaiting
  pendingLoads,    \* AlertService.getUserAlertConfigs calls awaiting
  pendingLogLoads, \* AlertService.getUserAlertLogs calls awaiting
  pendingAcks,     \* AlertService.acknowledgeAlert calls awaiting, by alert id
  logStore,        \* the rows of the user_alert_logs table, in insertion order
  firstTick,       \* history: per token, the tick that created its state and armed
                   \* its timer, while nothing but the passing of time and the
                   \* timer's own callback has touched the token since
  processedAt      \* history: per token that has a SymbolState, the time at which
                   \* the latest tick of a new batch was processed for it

vars == <<now, user, loading, configurations, alerts, inactiveSymbols,
          symbolStates, audioContext, timers, oscillators, ticks,
          marketOpen, pendingLogs, pendingSaves,
          pendingAckAll, pendingLoads, pendingLogLoads, pendingAcks, logStore,
          firstTick, processedAt>>

\* ------------------------------------------------------------ data types
UserAlertConfig ==
  [enabled: BOOLEAN, deviation: Deviations, duration: Durations,
   respect_market_hours: BOOLEAN, notification_sound: BOOLEAN]

ConfigMaps ==
  UNION {[S -> UserAlertConfig] : S \in SUBSET Tokens}

TickData ==
  [instrument_token: Tokens, last_price: Prices, receivedAt: 1..MaxBatch]

RECURSIVE SeqsUpTo(_, _)
SeqsUpTo(S, n) ==
  IF n = 0 THEN {<<>>}
  ELSE LET shorter == SeqsUpTo(S, n - 1)
       IN  shorter \cup {Append(s, x) : s \in {q \in shorter : Len(q) = n - 1}, x \in S}

Batches == SeqsUpTo(TickData, MaxBatch)

\* ------------------------------------------------------------- Map helpers
MapSet(m, k, v) == [x \in DOMAIN m \cup {k} |-> IF x = k THEN v ELSE m[x]]
MapDelete(m, k) == [x \in DOMAIN m \ {k} |-> m[x]]
EmptyMap == [x \in {} |-> 0]

\* Math.abs without the sign change
AbsSigned(x) == x

\* Math.abs one too large: a move of exactly the threshold counts as activity
AbsPlusOne(x) == IF x < 0 THEN 1 - x ELSE x + 1

Abs(x) == IF x < 0 THEN -x ELSE x

RECURSIVE SeqMin(_)
SeqMin(s) ==
  IF Len(s) = 1 THEN s[1]
  ELSE LET m == SeqMin(Tail(s)) IN IF s[1] < m THEN s[1] ELSE m

RECURSIVE SeqMax(_)
SeqMax(s) ==
  IF Len(s) = 1 THEN s[1]
  ELSE LET m == SeqMax(Tail(s)) IN IF s[1] > m THEN s[1] ELSE m

RECURSIVE SeqFilter(_, _)
SeqFilter(s, cutoff) ==
  IF s = <<>> THEN <<>>
  ELSE IF s[1].timestamp > cutoff
       THEN <<s[1]>> \o SeqFilter(Tail(s), cutoff)
       ELSE SeqFilter(Tail(s), cutoff)

LastN(s, n) == IF Len(s) <= n THEN s ELSE SubSeq(s, Len(s) - n + 1, Len(s))

\* .slice(0, n) that drops nothing
FirstNAll(s, n) == s

FirstN(s, n) == IF Len(s) <= n THEN s ELSE SubSeq(s, 1, n)

\* ------------------------------------------------------- tick ingestion
\* latestTicks: one tick per token, the first one with the greatest
\* receivedAt replaced only by a strictly greater receivedAt; the result is
\* kept in Map insertion order.
RECURSIVE LatestTicks(_)
LatestTicks(batch) ==
  IF batch = <<>> THEN <<>>
  ELSE LET prev == LatestTicks(SubSeq(batch, 1, Len(batch) - 1))
           tick == batch[Len(batch)]
           idx  == {i \in 1..Len(prev) : prev[i].instrument_token = tick.instrument_token}
       IN  IF idx = {} THEN Append(prev, tick)
           ELSE LET i == CHOOSE j \in idx : TRUE
                IN  IF tick.receivedAt > prev[i].receivedAt
                    THEN [prev EXCEPT ![i] = tick]
                    ELSE prev

\* --------------------------------------------------------- session oracle
shouldAlertsBeActive == marketOpen

\* the session oracle ignored
ShouldAlertAlways(config) == TRUE

ShouldAlert(config) ==
  IF config.respect_market_hours THEN shouldAlertsBeActive ELSE TRUE

\* ------------------------------------------------------------ the engine
\* The operators below transform an engine record
\*   [ss: symbolStates, tm: timers, inact: inactiveSymbols,
\*    osc: unreferenced oscillators, changed: inactiveSymbols got a new identity]

Engine == [ss |-> symbolStates, tm |-> timers, inact |-> inactiveSymbols,
           osc |-> oscillators, changed |-> FALSE]

\* setTimeout returns a handle distinct from every live handle
NewTimerId(E, token) ==
  LET used == {t.id : t \in E.tm} \cup
              {E.ss[k].timerId : k \in DOMAIN E.ss \ {token}}
  IN  CHOOSE i \in 1..(Cardinality(used) + 1) :
        /\ i \notin used
        /\ \A j \in 1..(i - 1) : j \in used

\* clearTimeout that cancels nothing
clearTimeoutNothing(E, id) == E

clearTimeout(E, id) == [E EXCEPT !.tm = {t \in E.tm : t.id # id}]

stopAlertSound(E, token) ==
  IF token \in DOMAIN E.ss /\ E.ss[token].oscillator
  THEN [E EXCEPT !.ss[token].oscillator = FALSE]
  ELSE E

playAlertSound(E, token, config) ==
  IF ~config.notification_sound \/ ~audioContext THEN E
  ELSE LET E1 == stopAlertSound(E, token)
       IN  IF token \in DOMAIN E1.ss
           THEN [E1 EXCEPT !.ss[token].oscillator = TRUE]
           ELSE [E1 EXCEPT !.osc = E1.osc \cup {token}]

\* resetInactivityTimer arming for twice the configured duration
resetInactivityTimerTwice(E, tick, config, usr) ==
  LET token == tick.instrument_token
      E1 == IF E.ss[token].timerId # 0 THEN clearTimeout(E, E.ss[token].timerId) ELSE E
      id == NewTimerId(E1, token)
  IN  [E1 EXCEPT
         !.ss[token].priceHistory = <<[price |-> tick.last_price, timestamp |-> now]>>,
         !.ss[token].timerId = id,
         !.tm = E1.tm \cup {[id |-> id, token |-> token,
                             due |-> now + 2 * config.duration * 1000,
                             last_price |-> tick.last_price, config |-> config,
                             user |-> usr]}]

resetInactivityTimer(E, tick, config, usr) ==
  LET token == tick.instrument_token
      E1 == IF E.ss[token].timerId # 0 THEN clearTimeout(E, E.ss[token].timerId) ELSE E
      id == NewTimerId(E1, token)
  IN  [E1 EXCEPT
         !.ss[token].priceHistory = <<[price |-> tick.last_price, timestamp |-> now]>>,
         !.ss[token].timerId = id,
         !.tm = E1.tm \cup {[id |-> id, token |-> token, due |-> now + config.duration * 1000,
                             last_price |-> tick.last_price, config |-> config,
                             user |-> usr]}]

\* clearSymbolState that keeps the state
clearSymbolStateKeep(E, token) == E

clearSymbolState(E, token) ==
  LET E1 == IF token \in DOMAIN E.ss /\ E.ss[token].timerId # 0
            THEN clearTimeout(E, E.ss[token].timerId) ELSE E
      E2 == stopAlertSound(E1, token)
  IN  [E2 EXCEPT !.ss = MapDelete(E2.ss, token),
                 !.inact = E2.inact \ {token},
                 !.changed = E2.changed \/ token \in E2.inact]

\* setInactiveSymbols(prev => delete token), guarded by the rendered set
ClearInactiveMarker(E, token, rendered) ==
  IF token \in rendered
  THEN [E EXCEPT !.inact = E.inact \ {token}, !.changed = TRUE]
  ELSE E

\* the timer left scheduled
CancelTimerNothing(E, token) == E

\* the timer cancelled and the history forgotten with it
CancelTimerForgetting(E, token) ==
  LET E1 == IF E.ss[token].timerId # 0
            THEN [clearTimeout(E, E.ss[token].timerId) EXCEPT !.ss[token].timerId = 0]
            ELSE E
  IN  [E1 EXCEPT !.ss[token].priceHistory = <<>>]

CancelTimer(E, token) ==
  IF E.ss[token].timerId # 0
  THEN [clearTimeout(E, E.ss[token].timerId) EXCEPT !.ss[token].timerId = 0]
  ELSE E

\* body of latestTicks.forEach for one tick
ProcessTick(E, tick, rendered, ctx) ==
  LET token == tick.instrument_token
      config == ctx.configurations[token]
  IN
  IF token \notin DOMAIN ctx.configurations \/ ~ctx.configurations[token].enabled
  THEN clearSymbolState(E, token)
  ELSE
  LET shouldAlert == ShouldAlert(config) IN
  IF token \notin DOMAIN E.ss
  THEN LET E1 == [E EXCEPT !.ss = MapSet(E.ss, token,
                     [baselinePrice |-> tick.last_price,
                      timerId |-> 0,
                      priceHistory |-> <<[price |-> tick.last_price, timestamp |-> now]>>,
                      lastMarketStatusCheck |-> now,
                      wasMarketOpen |-> shouldAlert,
                      oscillator |-> FALSE])]
       IN  IF shouldAlert THEN resetInactivityTimer(E1, tick, config, ctx.user) ELSE E1
  ELSE
  LET state == E.ss[token]
      checked == now - state.lastMarketStatusCheck > MARKET_CHECK_MS
      E1 == IF checked THEN [E EXCEPT !.ss[token].lastMarketStatusCheck = now] ELSE E
  IN
  IF checked /\ state.wasMarketOpen # shouldAlert
  THEN LET E2 == [E1 EXCEPT !.ss[token].wasMarketOpen = shouldAlert] IN
       IF shouldAlert
       THEN LET E3 == [E2 EXCEPT !.ss[token].baselinePrice = tick.last_price]
                E4 == resetInactivityTimer(E3, tick, config, ctx.user)
                E5 == ClearInactiveMarker(E4, token, rendered)
            IN  stopAlertSound(E5, token)
       ELSE CancelTimer(stopAlertSound(E2, token), token)
  ELSE
  IF ~shouldAlert /\ config.respect_market_hours
  THEN CancelTimer(stopAlertSound(E1, token), token)
  ELSE
  LET pushed == Append(E1.ss[token].priceHistory,
                       [price |-> tick.last_price, timestamp |-> now])
      pruned == LastN(SeqFilter(pushed, now - FIVE_MINUTES_MS), HISTORY_CAP)
      E2 == [E1 EXCEPT !.ss[token].priceHistory = pruned]
      priceMoved == Abs(tick.last_price - state.baselinePrice) > config.deviation
  IN
  IF priceMoved
  THEN LET E3 == [E2 EXCEPT !.ss[token].baselinePrice = tick.last_price]
           E4 == resetInactivityTimer(E3, tick, config, ctx.user)
           E5 == ClearInactiveMarker(E4, token, rendered)
       IN  stopAlertSound(E5, token)
  ELSE E2

RECURSIVE ProcessAll(_, _, _, _)
ProcessAll(E, latest, rendered, ctx) ==
  IF latest = <<>> THEN E
  ELSE ProcessAll(ProcessTick(E, latest[1], rendered, ctx), Tail(latest), rendered, ctx)

\* one run of the tick-processing effect on the reduced batch, in the render
\* context ctx = [user, loading, configurations]
TickEffect(E, latest, ctx) ==
  IF ctx.user = NoUser \/ ctx.loading THEN E
  ELSE ProcessAll(E, latest, E.inact, ctx)

\* The effect depends on inactiveSymbols: a run that replaced the set makes
\* React render again and run the effect once more on the same ticks.
RECURSIVE Rerun(_, _, _)
Rerun(E, latest, ctx) ==
  LET E1 == TickEffect([E EXCEPT !.changed = FALSE], latest, ctx)
  IN  IF E1.changed THEN Rerun(E1, latest, ctx) ELSE E1

Context == [user |-> user, loading |-> loading, configurations |-> configurations]

StripReceivedAt(latest) ==
  [i \in 1..Len(latest) |->
     [instrument_token |-> latest[i].instrument_token,
      last_price |-> latest[i].last_price]]

Commit(E) ==
  /\ symbolStates' = E.ss
  /\ timers' = E.tm
  /\ inactiveSymbols' = E.inact
  /\ oscillators' = E.osc


\* ------------------------------------------------------- alert emission
\* The SymbolState object a timeout callback closed over.  It is the entry
\* of symbolStates for the token whenever that entry holds the timer's
\* handle; a state object that was deleted from the map keeps the content
\* it had when its timer was armed.
CapturedState(t) ==
  IF t.token \in DOMAIN symbolStates /\ symbolStates[t.token].timerId = t.id
  THEN symbolStates[t.token]
  ELSE [baselinePrice |-> t.last_price, timerId |-> t.id,
        priceHistory |-> <<[price |-> t.last_price, timestamp |-> t.due - t.config.duration * 1000]>>,
        lastMarketStatusCheck |-> t.due - t.config.duration * 1000,
        wasMarketOpen |-> TRUE, oscillator |-> FALSE]

HistoryPrices(history) == [i \in 1..Len(history) |-> history[i].price]

\* newAlert of triggerAlert
NewAlert(t, state) ==
  [user_id |-> t.user,
   instrument_token |-> t.token,
   baseline_price |-> state.baselinePrice,
   current_price |-> t.last_price,
   price_range |-> [min |-> SeqMin(HistoryPrices(state.priceHistory)),
                    max |-> SeqMax(HistoryPrices(state.priceHistory))],
   deviation |-> t.config.deviation,
   duration |-> t.config.duration,
   acknowledged |-> FALSE]

\* an unset acknowledged_at; a set one is <<time>>
NoTimestamp == <<>>

\* the row of user_alert_logs that AlertService.logAlert inserts: the table
\* fills in id (here the row's position) and created_at
LogRow(alert, id, at) ==
  [id |-> id,
   user_id |-> alert.user_id,
   instrument_token |-> alert.instrument_token,
   baseline_price |-> alert.baseline_price,
   current_price |-> alert.current_price,
   price_range |-> alert.price_range,
   deviation |-> alert.deviation,
   duration |-> alert.duration,
   acknowledged |-> alert.acknowledged,
   acknowledged_at |-> NoTimestamp,
   created_at |-> at]

\* crypto.randomUUID() of triggerAlert: an id no row of the table has
\* (table ids are positive), different for every alert
RandomId(store) == 0 - (Len(store) + 1)

RECURSIVE Reverse(_)
Reverse(seq) == IF seq = <<>> THEN <<>> ELSE Append(Reverse(Tail(seq)), Head(seq))

\* AlertService.getUserAlertLogs(userId, {limit: 50, acknowledged: false}):
\* the user's unacknowledged rows, latest created first
RECURSIVE Unacknowledged(_, _)
Unacknowledged(store, userId) ==
  IF store = <<>> THEN <<>>
  ELSE IF store[1].user_id = userId /\ ~store[1].acknowledged
       THEN <<store[1]>> \o Unacknowledged(Tail(store), userId)
       ELSE Unacknowledged(Tail(store), userId)

getUserAlertLogs(store, userId) ==
  FirstN(Reverse(Unacknowledged(store, userId)), LOAD_LIMIT)

\* the update of AlertService.acknowledgeAlert: it matches on id and user_id
\* only, and sets acknowledged_at again on a row already acknowledged
AcknowledgedRow(store, userId, alertId, at) ==
  [i \in 1..Len(store) |->
     IF store[i].id = alertId /\ store[i].user_id = userId
     THEN [store[i] EXCEPT !.acknowledged = TRUE, !.acknowledged_at = <<at>>]
     ELSE store[i]]

\* the update of AlertService.acknowledgeAllAlerts: the user's rows that
\* are not acknowledged yet
AcknowledgedAllRows(store, userId, at) ==
  [i \in 1..Len(store) |->
     IF store[i].user_id = userId /\ ~store[i].acknowledged
     THEN [store[i] EXCEPT !.acknowledged = TRUE, !.acknowledged_at = <<at>>]
     ELSE store[i]]

\* the map of acknowledgeAlert over the cache
AcknowledgedEntry(cache, alertId, at) ==
  [i \in 1..Len(cache) |->
     IF cache[i].id = alertId
     THEN [cache[i] EXCEPT !.acknowledged = TRUE, !.acknowledged_at = <<at>>]
     ELSE cache[i]]

\* ---------------------------------------------------- history variable
\* tokens of a reduced batch
BatchTokens(latest) == {latest[i].instrument_token : i \in 1..Len(latest)}

PriceOf(latest, token) ==
  latest[CHOOSE i \in 1..Len(latest) : latest[i].instrument_token = token].last_price

\* firstTick after a new batch: a token of the batch that had no state and
\* now has a state with a pending timer starts a record; any other token of
\* the batch loses its record
FirstTickAfterBatch(latest, E) ==
  LET keep    == DOMAIN firstTick \ BatchTokens(latest)
      started == {k \in BatchTokens(latest) :
                    /\ k \notin DOMAIN symbolStates
                    /\ k \in DOMAIN E.ss
                    /\ \E t \in E.tm : t.token = k}
  IN  [k \in keep \cup started |->
         IF k \in started
         THEN [price |-> PriceOf(latest, k), at |-> now,
               duration |-> configurations[k].duration, alerts |-> <<>>]
         ELSE firstTick[k]]

ProcessedAtAfterBatch(latest, E) ==
  LET seen == IF user = NoUser \/ loading THEN {} ELSE BatchTokens(latest)
  IN  [k \in (DOMAIN processedAt \cup seen) \cap DOMAIN E.ss |->
         IF k \in seen THEN now ELSE processedAt[k]]

FirstTickAfterAlert(token, alert) ==
  [k \in DOMAIN firstTick |->
     IF k = token THEN [firstTick[k] EXCEPT !.alerts = Append(@, alert)]
     ELSE firstTick[k]]

FirstTickWithout(toks) == [k \in DOMAIN firstTick \ toks |-> firstTick[k]]

\* the setTimeout callback of resetInactivityTimer, up to the await of
\* AlertService.logAlert inside triggerAlert
TimerFire(t) ==
  /\ t \in timers
  /\ t.due <= now
  /\ LET E0 == [Engine EXCEPT !.tm = timers \ {t}]
     IN  IF ShouldAlert(t.config)
         THEN /\ Commit(E0)
              /\ IF t.user = NoUser
                 THEN UNCHANGED <<pendingLogs, firstTick>>
                 ELSE LET alert == NewAlert(t, CapturedState(t))
                      IN  /\ Cardinality(pendingLogs) < MaxInFlight
                          /\ pendingLogs' = pendingLogs \cup
                                {[alert |-> alert, config |-> t.config]}
                          /\ firstTick' = FirstTickAfterAlert(t.token, alert)
         ELSE LET E1 == clearSymbolState(stopAlertSound(E0, t.token), t.token)
              IN  /\ Commit(IF E1.changed THEN Rerun(E1, ticks, Context) ELSE E1)
                  /\ firstTick' = FirstTickWithout({t.token})
                  /\ UNCHANGED pendingLogs
  /\ UNCHANGED <<now, user, loading, configurations, alerts, audioContext, ticks,
                 marketOpen, pendingSaves, pendingAckAll, pendingLoads, processedAt,
                 pendingLogLoads, pendingAcks, logStore>>

\* the continuation of triggerAlert after AlertService.logAlert resolved;
\* alerts and inactiveSymbols changed, so the tick effect runs again
LogAlertDone(p, success) ==
  /\ p \in pendingLogs
  /\ pendingLogs' = pendingLogs \ {p}
  /\ IF success
     THEN LET token == p.alert.instrument_token
              E1 == [Engine EXCEPT !.inact = inactiveSymbols \cup {token}]
              E2 == playAlertSound(E1, token, p.config)
          IN  /\ logStore' = Append(logStore, LogRow(p.alert, Len(logStore) + 1, now))
              /\ alerts' = FirstN(<<LogRow(p.alert, RandomId(logStore), now)>> \o alerts,
                                  ALERTS_CAP)
              /\ Commit(Rerun(E2, ticks, Context))
     ELSE UNCHANGED <<alerts, symbolStates, timers, inactiveSymbols, oscillators, logStore>>
  /\ UNCHANGED <<now, user, loading, configurations, audioContext, ticks, marketOpen,
                 pendingSaves, pendingAckAll, pendingLoads, firstTick, processedAt,
                 pendingLogLoads, pendingAcks>>

\* ------------------------------------------------------- tick processing
\* a new ticks array is rendered and the tick effect runs on it
NewTicks(batch) ==
  /\ LET latest == StripReceivedAt(LatestTicks(batch))
         E == Rerun(Engine, latest, Context)
     IN  /\ ticks' = latest
         /\ Commit(E)
         /\ firstTick' = FirstTickAfterBatch(latest, E)
         /\ processedAt' = ProcessedAtAfterBatch(latest, E)
  /\ UNCHANGED <<now, user, loading, configurations, alerts, audioContext, marketOpen,
                 pendingLogs, pendingSaves, pendingAckAll, pendingLoads,
                 pendingLogLoads, pendingAcks, logStore>>

\* ------------------------------------------------------------ lifecycle
\* updateConfiguration up to the await of AlertService.saveAlertConfig.  The
\* config argument travels with the request and nothing reads it before the
\* continuation runs, so it is drawn there.
updateConfiguration(token) ==
  /\ user # NoUser
  /\ token \notin pendingSaves
  /\ Cardinality(pendingSaves) < MaxInFlight
  /\ pendingSaves' = pendingSaves \cup {token}
  /\ UNCHANGED <<now, user, loading, configurations, alerts, inactiveSymbols, symbolStates,
                 audioContext, timers, oscillators, ticks, marketOpen,
                 pendingLogs, pendingAckAll, pendingLoads, firstTick, processedAt,
                 pendingLogLoads, pendingAcks, logStore>>

\* the continuation of updateConfiguration; configurations changed, so the
\* tick effect runs again
SaveDone(token, config, success) ==
  /\ token \in pendingSaves
  /\ config \in UserAlertConfig
  /\ pendingSaves' = pendingSaves \ {token}
  /\ IF success
     THEN LET configs == MapSet(configurations, token, config)
          IN  /\ configurations' = configs
              /\ Commit(Rerun(clearSymbolState(Engine, token), ticks,
                              [Context EXCEPT !.configurations = configs]))
              /\ firstTick' = FirstTickWithout(BatchTokens(ticks) \cup {token})
     ELSE UNCHANGED <<configurations, symbolStates, timers, inactiveSymbols, oscillators,
                      firstTick>>
  /\ UNCHANGED <<now, user, loading, alerts, audioContext, ticks, marketOpen,
                 pendingLogs, pendingAckAll, pendingLoads, processedAt,
                 pendingLogLoads, pendingAcks, logStore>>

\* clearAllAlerts up to the await of AlertService.acknowledgeAllAlerts
clearAllAlerts ==
  /\ user # NoUser
  /\ pendingAckAll < MaxInFlight
  /\ pendingAckAll' = pendingAckAll + 1
  /\ UNCHANGED <<now, user, loading, configurations, alerts, inactiveSymbols, symbolStates,
                 audioContext, timers, oscillators, ticks, marketOpen,
                 pendingLogs, pendingSaves, pendingLoads, firstTick, processedAt,
                 pendingLogLoads, pendingAcks, logStore>>

RECURSIVE StopAll(_, _)
StopAll(E, toks) ==
  IF toks = {} THEN E
  ELSE LET k == CHOOSE x \in toks : TRUE
       IN  StopAll(stopAlertSound(E, k), toks \ {k})

\* what clearAllAlerts does to the engine once the store acknowledged
AcknowledgedAll(E) == [StopAll(E, DOMAIN E.ss) EXCEPT !.inact = {}]

\* the continuation of clearAllAlerts; alerts and inactiveSymbols changed, so
\* the tick effect runs again
AckAllDone(success) ==
  /\ pendingAckAll > 0
  /\ pendingAckAll' = pendingAckAll - 1
  /\ IF success
     THEN /\ logStore' = AcknowledgedAllRows(logStore, UserId, now)
          /\ alerts' = <<>>
          /\ Commit(Rerun(AcknowledgedAll(Engine), ticks, Context))
     ELSE UNCHANGED <<alerts, symbolStates, timers, inactiveSymbols, oscillators, logStore>>
  /\ UNCHANGED <<now, user, loading, configurations, audioContext, ticks, marketOpen,
                 pendingLogs, pendingSaves, pendingLoads, firstTick, processedAt,
                 pendingLogLoads, pendingAcks>>

\* the user effect: a user appeared; the tick effect runs again
SignIn ==
  /\ user = NoUser
  /\ pendingLoads < MaxInFlight /\ pendingLogLoads < MaxInFlight
  /\ user' = UserId
  /\ pendingLoads' = pendingLoads + 1
  /\ pendingLogLoads' = pendingLogLoads + 1
  /\ Commit(Rerun(Engine, ticks, [Context EXCEPT !.user = UserId]))
  /\ firstTick' = FirstTickWithout(BatchTokens(ticks))
  /\ UNCHANGED <<now, loading, configurations, alerts, audioContext, ticks, marketOpen,
                 pendingLogs, pendingSaves, pendingAckAll, processedAt, pendingAcks,
                 logStore>>

\* the user effect: the user became null (the tick effect returns at once)
SignOut ==
  /\ user # NoUser
  /\ user' = NoUser
  /\ configurations' = EmptyMap
  /\ alerts' = <<>>
  /\ inactiveSymbols' = {}
  /\ loading' = FALSE
  /\ firstTick' = EmptyMap
  /\ UNCHANGED <<now, symbolStates, audioContext, timers, oscillators, ticks, marketOpen,
                 pendingLogs, pendingSaves, pendingAckAll, pendingLoads, processedAt,
                 pendingLogLoads, pendingAcks, logStore>>

\* loadUserConfigurations after AlertService.getUserAlertConfigs resolved (a
\* store error resolves to the empty list); the tick effect runs again
LoadDone(configs) ==
  /\ pendingLoads > 0
  /\ configs \in ConfigMaps
  /\ pendingLoads' = pendingLoads - 1
  /\ configurations' = configs
  /\ loading' = FALSE
  /\ Commit(Rerun(Engine, ticks, [user |-> user, loading |-> FALSE, configurations |-> configs]))
  /\ firstTick' = EmptyMap
  /\ UNCHANGED <<now, user, alerts, audioContext, ticks, marketOpen, pendingLogs,
                 pendingSaves, pendingAckAll, processedAt,
                 pendingLogLoads, pendingAcks, logStore>>

\* AlertService.getUserAlertConfigs: the user's stored configurations, or the
\* empty list when the store reports an error
getUserAlertConfigs(stored, error) == IF error THEN EmptyMap ELSE stored

\* loadUserConfigurations when the awaited call throws: the catch reports it
\* and finally clears loading; loading changed, so the tick effect runs again
LoadThrown ==
  /\ pendingLoads > 0
  /\ pendingLoads' = pendingLoads - 1
  /\ loading' = FALSE
  /\ Commit(Rerun(Engine, ticks, [Context EXCEPT !.loading = FALSE]))
  /\ firstTick' = EmptyMap
  /\ UNCHANGED <<now, user, configurations, alerts, audioContext, ticks, marketOpen,
                 pendingLogs, pendingSaves, pendingAckAll, processedAt,
                 pendingLogLoads, pendingAcks, logStore>>

\* what AlertService.getUserAlertLogs resolves to: the rows of the query, or
\* nothing on a store error
StoredLogs == {<<>>, getUserAlertLogs(logStore, UserId)}

LogTokens(logs) == {logs[i].instrument_token : i \in {j \in 1..Len(logs) : ~logs[j].acknowledged}}

\* loadRecentAlerts after AlertService.getUserAlertLogs resolved; alerts and
\* inactiveSymbols changed, so the tick effect runs again
LoadAlertsDone(logs) ==
  /\ pendingLogLoads > 0
  /\ logs \in StoredLogs
  /\ pendingLogLoads' = pendingLogLoads - 1
  /\ alerts' = logs
  /\ Commit(Rerun([Engine EXCEPT !.inact = LogTokens(logs)], ticks, Context))
  /\ UNCHANGED <<now, user, loading, configurations, audioContext, ticks, marketOpen,
                 pendingLogs, pendingSaves, pendingAckAll, pendingLoads, firstTick,
                 processedAt, pendingAcks, logStore>>

\* loadRecentAlerts, which the hook also hands to its caller, up to the await
\* of AlertService.getUserAlertLogs
loadRecentAlerts ==
  /\ user # NoUser
  /\ pendingLogLoads < MaxInFlight
  /\ pendingLogLoads' = pendingLogLoads + 1
  /\ UNCHANGED <<now, user, loading, configurations, alerts, inactiveSymbols, symbolStates,
                 audioContext, timers, oscillators, ticks, marketOpen, pendingLogs,
                 pendingSaves, pendingAckAll, pendingLoads, pendingAcks, logStore,
                 firstTick, processedAt>>

\* acknowledgeAlert up to the await of AlertService.acknowledgeAlert
acknowledgeAlert(alertId) ==
  /\ user # NoUser
  /\ Cardinality(pendingAcks) < MaxInFlight
  /\ alertId \notin pendingAcks
  /\ pendingAcks' = pendingAcks \cup {alertId}
  /\ UNCHANGED <<now, user, loading, configurations, alerts, inactiveSymbols, symbolStates,
                 audioContext, timers, oscillators, ticks, marketOpen, pendingLogs,
                 pendingSaves, pendingAckAll, pendingLoads, pendingLogLoads, logStore,
                 firstTick, processedAt>>

\* the continuation of acknowledgeAlert: the store ran its update (an update
\* that matches no row is no error) or failed; alerts changed, which the tick
\* effect does not depend on
AckDone(alertId, success) ==
  /\ alertId \in pendingAcks
  /\ pendingAcks' = pendingAcks \ {alertId}
  /\ IF success
     THEN /\ logStore' = AcknowledgedRow(logStore, UserId, alertId, now)
          /\ alerts' = AcknowledgedEntry(alerts, alertId, now)
     ELSE UNCHANGED <<alerts, logStore>>
  /\ UNCHANGED <<now, user, loading, configurations, inactiveSymbols, symbolStates,
                 audioContext, timers, oscillators, ticks, marketOpen, pendingLogs,
                 pendingSaves, pendingAckAll, pendingLoads, pendingLogLoads,
                 firstTick, processedAt>>

\* --------------------------------------------------------- environment
\* the first click creates the AudioContext
InitAudio ==
  /\ ~audioContext
  /\ audioContext' = TRUE
  /\ UNCHANGED <<now, user, loading, configurations, alerts, inactiveSymbols, symbolStates,
                 timers, oscillators, ticks, marketOpen, pendingLogs,
                 pendingSaves, pendingAckAll, pendingLoads, firstTick, processedAt,
                 pendingLogLoads, pendingAcks, logStore>>

\* the market session opens or closes
SessionChange ==
  /\ marketOpen' = ~marketOpen
  /\ firstTick' = FirstTickWithout({k \in DOMAIN firstTick :
                      k \in DOMAIN configurations /\ configurations[k].respect_market_hours})
  /\ UNCHANGED <<now, user, loading, configurations, alerts, inactiveSymbols, symbolStates,
                 audioContext, timers, oscillators, ticks, pendingLogs,
                 pendingSaves, pendingAckAll, pendingLoads, processedAt,
                 pendingLogLoads, pendingAcks, logStore>>

NoRequestInFlight ==
  /\ pendingLogs = {} /\ pendingSaves = {} /\ pendingAckAll = 0
  /\ pendingLoads = 0 /\ pendingLogLoads = 0 /\ pendingAcks = {}

\* the clock moves on one step: every due timeout has run and the store has
\* answered the requests sent to it
AdvanceTime ==
  /\ now < MaxTime
  /\ \A t \in timers : t.due > now
  /\ NoRequestInFlight
  /\ now' = now + ClockStep
  /\ UNCHANGED <<user, loading, configurations, alerts, inactiveSymbols, symbolStates,
                 audioContext, timers, oscillators, ticks, marketOpen,
                 pendingLogs, pendingSaves, pendingAckAll, pendingLoads, firstTick, processedAt,
                 pendingLogLoads, pendingAcks, logStore>>

\* ------------------------------------------------------- specifications
Quiescent ==
  /\ now = 0
  /\ alerts = <<>>
  /\ inactiveSymbols = {}
  /\ symbolStates = EmptyMap
  /\ timers = {}
  /\ oscillators = {}
  /\ ticks = <<>>
  /\ marketOpen \in BOOLEAN
  /\ pendingLogs = {}
  /\ pendingSaves = {}
  /\ pendingAckAll = 0
  /\ pendingAcks = {}
  /\ logStore = <<>>
  /\ firstTick = EmptyMap
  /\ processedAt = EmptyMap

\* the hook after construction: no user, or a user whose configurations are
\* being loaded
Init ==
  /\ Quiescent
  /\ \/ user = NoUser /\ loading = FALSE /\ pendingLoads = 0 /\ pendingLogLoads = 0
     \/ user = UserId /\ loading = TRUE /\ pendingLoads = 1 /\ pendingLogLoads = 1
  /\ configurations = EmptyMap
  /\ audioContext = FALSE

Next ==
  \/ \E batch \in Batches : NewTicks(batch)
  \/ \E t \in timers : TimerFire(t)
  \/ \E p \in pendingLogs, success \in BOOLEAN : LogAlertDone(p, success)
  \/ \E token \in Tokens : updateConfiguration(token)
  \/ \E token \in Tokens, config \in UserAlertConfig, success \in BOOLEAN :
        SaveDone(token, config, success)
  \/ clearAllAlerts
  \/ \E success \in BOOLEAN : AckAllDone(success)
  \/ SignIn
  \/ SignOut
  \/ \E configs \in ConfigMaps : LoadDone(configs)
  \/ LoadThrown
  \/ \E logs \in StoredLogs : LoadAlertsDone(logs)
  \/ loadRecentAlerts
  \/ \E i \in 1..Len(alerts) : acknowledgeAlert(alerts[i].id)
  \/ \E alertId \in pendingAcks, success \in BOOLEAN : AckDone(alertId, success)
  \/ InitAudio
  \/ SessionChange
  \/ AdvanceTime

Spec == Init /\ [][Next]_vars

\* The engine alone: a signed-in user whose configurations have been loaded,
\* before any click created the AudioContext (no sound is ever produced, so
\* the configurations leave notification_sound off).
SilentConfigs ==
  {c \in UserAlertConfig :
     ~c.notification_sound /\ c.duration = LongDuration /\ c.deviation = 1}

InitEngine ==
  /\ Quiescent
  /\ user = UserId /\ loading = FALSE /\ pendingLoads = 0 /\ pendingLogLoads = 0
  /\ configurations \in {m \in ConfigMaps : \A k \in DOMAIN m : m[k] \in SilentConfigs}
  /\ audioContext = FALSE

NextEngine ==
  \/ \E batch \in Batches : NewTicks(batch)
  \/ \E t \in timers : TimerFire(t)
  \/ \E p \in pendingLogs, success \in BOOLEAN : LogAlertDone(p, success)
  \/ \E token \in Tokens : updateConfiguration(token)
  \/ \E token \in Tokens, config \in SilentConfigs, success \in BOOLEAN :
        SaveDone(token, config, success)
  \/ SessionChange
  \/ AdvanceTime

SpecEngine == InitEngine /\ [][NextEngine]_vars

\* The engine with sound: the AudioContext exists and every configuration
\* has notification_sound on; the user may acknowledge all alerts.
SoundConfigs ==
  {c \in UserAlertConfig :
     c.notification_sound /\ c.duration = LongDuration /\ c.deviation = 1}

InitSound ==
  /\ Quiescent
  /\ user = UserId /\ loading = FALSE /\ pendingLoads = 0 /\ pendingLogLoads = 0
  /\ configurations \in {m \in ConfigMaps : \A k \in DOMAIN m : m[k] \in SoundConfigs}
  /\ audioContext = TRUE

NextSound ==
  \/ \E batch \in Batches : NewTicks(batch)
  \/ \E t \in timers : TimerFire(t)
  \/ \E p \in pendingLogs, success \in BOOLEAN : LogAlertDone(p, success)
  \/ \E token \in Tokens : updateConfiguration(token)
  \/ \E token \in Tokens, config \in SoundConfigs, success \in BOOLEAN :
        SaveDone(token, config, success)
  \/ clearAllAlerts
  \/ \E success \in BOOLEAN : AckAllDone(success)
  \/ SessionChange
  \/ AdvanceTime

SpecSound == InitSound /\ [][NextSound]_vars

\* The engine across sessions of the user: sign-out, sign-in and the load of
\* the loads that follow it, with configurations that ignore market hours
\* and a store that holds no unacknowledged alert.
PlainConfigs == {c \in SilentConfigs : ~c.respect_market_hours}

PlainConfigMaps == {m \in ConfigMaps : \A k \in DOMAIN m : m[k] \in PlainConfigs}

InitSession ==
  /\ Quiescent
  /\ user = UserId /\ loading = FALSE /\ pendingLoads = 0 /\ pendingLogLoads = 0
  /\ configurations \in PlainConfigMaps
  /\ audioContext = FALSE

NextSession ==
  \/ \E batch \in Batches : NewTicks(batch)
  \/ \E t \in timers : TimerFire(t)
  \/ \E p \in pendingLogs, success \in BOOLEAN : LogAlertDone(p, success)
  \/ SignIn
  \/ SignOut
  \/ \E configs \in PlainConfigMaps : LoadDone(configs)
  \/ \E logs \in StoredLogs : LoadAlertsDone(logs)
  \/ AdvanceTime

SpecSession == InitSession /\ [][NextSession]_vars

\* The recent-alerts cache against the table: a signed-in user with one enabled
\* configuration of the short duration, so that two alerts fire within the
\* horizon; the table may already hold an unacknowledged row of an earlier
\* session, and the load started at mount is still in flight.
EarlierRow ==
  [id |-> 1, user_id |-> UserId, instrument_token |-> 101,
   baseline_price |-> 100, current_price |-> 100,
   price_range |-> [min |-> 100, max |-> 100],
   deviation |-> 1, duration |-> ShortDuration,
   acknowledged |-> FALSE, acknowledged_at |-> NoTimestamp,
   created_at |-> 0 - ClockStep]

CacheConfig ==
  [enabled |-> TRUE, deviation |-> 1, duration |-> ShortDuration,
   respect_market_hours |-> FALSE, notification_sound |-> FALSE]

InitCache ==
  /\ now = 0
  /\ user = UserId /\ loading = FALSE
  /\ configurations = [k \in Tokens |-> CacheConfig]
  /\ alerts = <<>>
  /\ inactiveSymbols = {}
  /\ symbolStates = EmptyMap
  /\ audioContext = FALSE
  /\ timers = {}
  /\ oscillators = {}
  /\ ticks = <<>>
  /\ marketOpen = TRUE
  /\ pendingLogs = {}
  /\ pendingSaves = {}
  /\ pendingAckAll = 0
  /\ pendingLoads = 0
  /\ pendingLogLoads = 1
  /\ pendingAcks = {}
  /\ logStore \in {<<>>, <<EarlierRow>>}
  /\ firstTick = EmptyMap
  /\ processedAt = EmptyMap

\* batches of the baseline price and of a price beyond the deviation
CacheBatches == {b \in Batches : \A i \in 1..Len(b) : b[i].last_price \in {100, 102}}

NextCache ==
  \/ \E batch \in CacheBatches : NewTicks(batch)
  \/ \E t \in timers : TimerFire(t)
  \/ \E p \in pendingLogs, success \in BOOLEAN : LogAlertDone(p, success)
  \/ loadRecentAlerts
  \/ \E logs \in StoredLogs : LoadAlertsDone(logs)
  \/ \E i \in 1..Len(alerts) : acknowledgeAlert(alerts[i].id)
  \/ \E alertId \in pendingAcks, success \in BOOLEAN : AckDone(alertId, success)
  \/ AdvanceTime

SpecCache == InitCache /\ [][NextCache]_vars

\* Tick ingestion: the engine of a signed-in user fed with batches of several
\* ticks, whose receivedAt may coincide.
MaxIngest == 2

IngestBatches ==
  SeqsUpTo([instrument_token: Tokens, last_price: Prices, receivedAt: 1..MaxIngest],
           MaxIngest)

InitIngest ==
  /\ Quiescent
  /\ user = UserId /\ loading = FALSE /\ pendingLoads = 0 /\ pendingLogLoads = 0
  /\ configurations \in PlainConfigMaps
  /\ audioContext = FALSE

NextIngest ==
  \/ \E batch \in IngestBatches : NewTicks(batch)
  \/ \E t \in timers : TimerFire(t)
  \/ \E p \in pendingLogs, success \in BOOLEAN : LogAlertDone(p, success)
  \/ AdvanceTime

SpecIngest == InitIngest /\ [][NextIngest]_vars

\* Session transitions with sound: a signed-in user with an AudioContext whose
\* configuration of the short duration respects market hours and asks for
\* sound, so that an alert fires and the session changes within the horizon.
ReopenConfig ==
  [enabled |-> TRUE, deviation |-> 1, duration |-> ShortDuration,
   respect_market_hours |-> TRUE, notification_sound |-> TRUE]

InitReopen ==
  /\ Quiescent
  /\ user = UserId /\ loading = FALSE /\ pendingLoads = 0 /\ pendingLogLoads = 0
  /\ configurations = [k \in Tokens |-> ReopenConfig]
  /\ audioContext = TRUE

NextReopen ==
  \/ \E batch \in CacheBatches : NewTicks(batch)
  \/ \E t \in timers : TimerFire(t)
  \/ \E p \in pendingLogs, success \in BOOLEAN : LogAlertDone(p, success)
  \/ \E token \in Tokens : updateConfiguration(token)
  \/ \E token \in Tokens, success \in BOOLEAN : SaveDone(token, ReopenConfig, success)
  \/ SessionChange
  \/ AdvanceTime

SpecReopen == InitReopen /\ [][NextReopen]_vars

\* Configuration store: a signed-in user whose configurations are still being
\* loaded and who may already save one.
InitConfig ==
  /\ Quiescent
  /\ user = UserId /\ loading = TRUE /\ pendingLoads = 1 /\ pendingLogLoads = 0
  /\ configurations = EmptyMap
  /\ audioContext = FALSE

NextConfig ==
  \/ \E batch \in Batches : NewTicks(batch)
  \/ \E t \in timers : TimerFire(t)
  \/ \E p \in pendingLogs, success \in BOOLEAN : LogAlertDone(p, success)
  \/ \E token \in Tokens : updateConfiguration(token)
  \/ \E token \in Tokens, config \in PlainConfigs, success \in BOOLEAN :
        SaveDone(token, config, success)
  \/ \E stored \in PlainConfigMaps, error \in BOOLEAN :
        LoadDone(getUserAlertConfigs(stored, error))
  \/ LoadThrown
  \/ AdvanceTime

SpecConfig == InitConfig /\ [][NextConfig]_vars

\* Thresholds across sessions: the user signs out and in again, and the
\* configurations loaded then may carry another deviation threshold.
ThresholdConfigs ==
  {c \in UserAlertConfig :
     /\ c.enabled /\ ~c.notification_sound /\ ~c.respect_market_hours
     /\ c.duration = LongDuration}

ThresholdConfigMaps == {m \in ConfigMaps : \A k \in DOMAIN m : m[k] \in ThresholdConfigs}

InitThreshold ==
  /\ Quiescent
  /\ user = UserId /\ loading = FALSE /\ pendingLoads = 0 /\ pendingLogLoads = 0
  /\ configurations \in ThresholdConfigMaps
  /\ audioContext = FALSE

NextThreshold ==
  \/ \E batch \in CacheBatches : NewTicks(batch)
  \/ \E t \in timers : TimerFire(t)
  \/ \E p \in pendingLogs, success \in BOOLEAN : LogAlertDone(p, success)
  \/ SignIn
  \/ SignOut
  \/ \E configs \in ThresholdConfigMaps : LoadDone(configs)
  \/ \E logs \in StoredLogs : LoadAlertsDone(logs)
  \/ AdvanceTime

SpecThreshold == InitThreshold /\ [][NextThreshold]_vars

TypeOK ==
  /\ now \in 0..MaxTime
  /\ user \in {NoUser, UserId}
  /\ DOMAIN configurations \subseteq Tokens
  /\ DOMAIN symbolStates \subseteq Tokens
  /\ inactiveSymbols \subseteq Tokens
  /\ DOMAIN firstTick \subseteq Tokens

\* ------------------------------------------------------------ properties
TimersOf(k) == {t \in timers : t.token = k}

Enabled(k) == k \in DOMAIN configurations /\ configurations[k].enabled

\* the instrument has a state whose timer is scheduled
Armed(k) ==
  /\ k \in DOMAIN symbolStates
  /\ \E t \in timers : t.token = k /\ t.id = symbolStates[k].timerId

\* the time at which a timer was armed
ArmedAt(t) == t.due - t.config.duration * 1000

\* the effect processes ticks in this render
Processing == user # NoUser /\ ~loading

\* the tick the effect processes for token k in batch has price p
Carries(batch, k, p) ==
  LET latest == LatestTicks(batch)
  IN  \E i \in 1..Len(latest) :
         latest[i].instrument_token = k /\ latest[i].last_price = p

\* the throttled session check of this tick finds the oracle changed
TransitionDetected(k) ==
  /\ now - symbolStates[k].lastMarketStatusCheck > MARKET_CHECK_MS
  /\ symbolStates[k].wasMarketOpen # ShouldAlert(configurations[k])

\* C1: when the first tick of an instrument, at price P, created its state
\* and armed its timer and nothing but time touched the instrument since, no
\* alert is emitted before the duration has elapsed (until then, and no
\* longer, the timer stays scheduled for exactly that time), at most one
\* alert is emitted, and the alert emitted when the duration has elapsed
\* carries baseline P and leaves no timer behind.
C1_QuietCycleOneAlert ==
  \A k \in DOMAIN firstTick :
     LET c == firstTick[k]
         due == c.at + c.duration * 1000
     IN  /\ Len(c.alerts) <= 1
         /\ k \in DOMAIN symbolStates
         /\ symbolStates[k].baselinePrice = c.price
         /\ c.alerts = <<>> =>
              /\ now <= due
              /\ \E t \in timers : TimersOf(k) = {t} /\ t.due = due
         /\ c.alerts # <<>> =>
              /\ now >= due
              /\ c.alerts[1].baseline_price = c.price
              /\ TimersOf(k) = {}

\* the alert of a quiet cycle has been emitted, at the time it was due
C1_Witness ==
  \E k \in DOMAIN firstTick :
     /\ Len(firstTick[k].alerts) = 1
     /\ firstTick[k].at = 0
     /\ now = firstTick[k].duration * 1000
     /\ firstTick[k].alerts[1].baseline_price = firstTick[k].price

\* C2: a tick that reaches the deviation check of an armed instrument with
\* |price - baseline| > deviation removes the scheduled timer, makes its
\* price the baseline and leaves exactly one timer, due one duration after
\* this tick; a tick with |price - baseline| <= deviation (so also exactly at
\* the threshold) leaves the timer and the baseline as they were.
C2_DeviationRearms ==
  [][\A batch \in Batches, k \in Tokens, p \in Prices :
       ( /\ Carries(batch, k, p)
         /\ Processing
         /\ Enabled(k)
         /\ Armed(k)
         /\ ShouldAlert(configurations[k])
         /\ ~TransitionDetected(k)
         /\ NewTicks(batch) )
       => LET config == configurations[k]
              old == CHOOSE t \in timers : t.token = k
              base == symbolStates[k].baselinePrice
          IN  IF p - base > config.deviation \/ base - p > config.deviation
              THEN /\ old \notin timers'
                   /\ symbolStates'[k].baselinePrice = p
                   /\ \E t \in timers' :
                        /\ {u \in timers' : u.token = k} = {t}
                        /\ t.due = now + config.duration * 1000
                        /\ t.last_price = p
                        /\ symbolStates'[k].timerId = t.id
              ELSE /\ {u \in timers' : u.token = k} = {old}
                   /\ symbolStates'[k].baselinePrice = symbolStates[k].baselinePrice
    ]_vars

\* a timer armed at the second instant, by a tick that did not create the
\* state, for a baseline of 102
C2_Witness ==
  \E k \in DOMAIN symbolStates, t \in timers :
     /\ t.token = k
     /\ symbolStates[k].timerId = t.id
     /\ ArmedAt(t) = ClockStep
     /\ symbolStates[k].baselinePrice = 102
     /\ t.last_price = 102
     /\ alerts = <<>> /\ pendingLogs = {}
     /\ ~configurations[k].respect_market_hours
     /\ k \notin DOMAIN firstTick
     /\ processedAt[k] = ClockStep

\* C9: in every reachable state each token has at most one scheduled timer
C9_OneTimerPerToken ==
  \A k \in Tokens : Cardinality(TimersOf(k)) <= 1

\* a timer armed after the first instant by a tick that did not create the
\* state is the only one of its token
C9_Witness ==
  \E t \in timers :
     /\ ArmedAt(t) > 0
     /\ TimersOf(t.token) = {t}
     /\ t.token \in DOMAIN processedAt
     /\ t.token \notin DOMAIN firstTick

\* the alert a firing timer hands to AlertService.logAlert
Emitted(a) == \E q \in pendingLogs' \ pendingLogs : q.alert = a

\* C3 (as the program behaves): with respect_market_hours off, a tick whose
\* price stays within the deviation threshold of the baseline leaves the
\* scheduled timer and the baseline untouched and is appended to the history;
\* the timer runs when its duration, counted from the tick that armed it, has
\* elapsed, and the alert it emits carries the price of the arming tick as
\* baseline and the minimum and maximum of the retained history as range.
C3_WindowFromArmingTick ==
  [][ /\ \A batch \in Batches, k \in Tokens, p \in Prices :
           ( /\ Carries(batch, k, p)
             /\ Processing
             /\ Enabled(k)
             /\ Armed(k)
             /\ ~configurations[k].respect_market_hours
             /\ p - symbolStates[k].baselinePrice <= configurations[k].deviation
             /\ symbolStates[k].baselinePrice - p <= configurations[k].deviation
             /\ NewTicks(batch) )
           => /\ {u \in timers' : u.token = k} = TimersOf(k)
              /\ symbolStates'[k].baselinePrice = symbolStates[k].baselinePrice
              /\ LET h == symbolStates'[k].priceHistory
                 IN  h[Len(h)] = [price |-> p, timestamp |-> now]
      /\ \A t \in timers :
           ( /\ TimerFire(t)
             /\ ~t.config.respect_market_hours
             /\ t.user # NoUser )
           => /\ now = ArmedAt(t) + t.config.duration * 1000
              /\ \E a \in {q.alert : q \in pendingLogs'} :
                   LET h == symbolStates[t.token].priceHistory
                   IN  /\ Emitted(a)
                       /\ a.baseline_price = t.last_price
                       /\ \A i \in 1..Len(h) :
                            a.price_range.min <= h[i].price /\ h[i].price <= a.price_range.max
                       /\ \E i \in 1..Len(h) : h[i].price = a.price_range.min
                       /\ \E i \in 1..Len(h) : h[i].price = a.price_range.max
    ]_vars

\* ticks at t=0 price 100 and one step later price 101 (within the threshold),
\* none after: the alert is emitted one duration after t=0 with baseline 100
\* and range [100, 101]
C3_Witness ==
  \E q \in pendingLogs, k \in DOMAIN processedAt :
     /\ q.alert.instrument_token = k
     /\ ~q.config.respect_market_hours
     /\ now = q.config.duration * 1000
     /\ processedAt[k] = ClockStep
     /\ symbolStates[k].priceHistory =
          <<[price |-> 100, timestamp |-> 0], [price |-> 101, timestamp |-> ClockStep]>>
     /\ q.alert.baseline_price = 100
     /\ q.alert.price_range = [min |-> 100, max |-> 101]

\* C3 (as the claim states it): an alert is emitted no earlier than one
\* duration after the most recent tick processed for the instrument, and it
\* carries that tick's price as baseline.
C3_WindowFromLatestTick ==
  [][\A t \in timers :
       ( /\ TimerFire(t)
         /\ ~t.config.respect_market_hours
         /\ t.user # NoUser
         /\ t.token \in DOMAIN processedAt )
       => /\ now >= processedAt[t.token] + t.config.duration * 1000
          /\ \E a \in {q.alert : q \in pendingLogs'} :
               LET h == symbolStates[t.token].priceHistory
               IN  Emitted(a) /\ a.baseline_price = h[Len(h)].price
    ]_vars

\* C4: for an armed instrument whose configuration respects market hours,
\* while the session oracle reports inactive a processed tick cancels the
\* timer, whatever its price, and emits nothing, and a timer that elapses
\* emits nothing and leaves no timer; every scheduled timer carries the
\* current configuration of its token.
C4_InactiveSessionSilences ==
  /\ [](\A t \in timers :
          t.token \in DOMAIN configurations /\ t.config = configurations[t.token])
  /\ [][ /\ \A batch \in Batches, k \in Tokens, p \in Prices :
              ( /\ Carries(batch, k, p)
                /\ Processing
                /\ Enabled(k)
                /\ Armed(k)
                /\ configurations[k].respect_market_hours
                /\ ~marketOpen
                /\ NewTicks(batch) )
              => /\ {u \in timers' : u.token = k} = {}
                 /\ symbolStates'[k].timerId = 0
                 /\ pendingLogs' = pendingLogs
         /\ \A t \in timers :
              ( /\ TimerFire(t)
                /\ t.config.respect_market_hours
                /\ ~marketOpen )
              => /\ {u \in timers' : u.token = t.token} = {}
                 /\ pendingLogs' = pendingLogs
                 /\ alerts' = alerts
       ]_vars

\* the timer of an instrument elapsed on its own while the session was
\* inactive: its state is gone although the last batch carried the token and
\* its configuration is enabled, and nothing was emitted
C4_Witness ==
  \E k \in Tokens :
     /\ Enabled(k)
     /\ configurations[k].respect_market_hours
     /\ ~marketOpen
     /\ BatchTokens(ticks) = {k}
     /\ k \notin DOMAIN symbolStates
     /\ now = configurations[k].duration * 1000
     /\ pendingLogs = {} /\ alerts = <<>>

\* C5: a tick processed for an enabled instrument whose configuration
\* respects market hours, while the session oracle reports inactive and no
\* timer is scheduled for it, leaves a state without a timer and emits
\* nothing: the first such tick creates the state unarmed and later ticks
\* keep it unarmed.
C5_CreatedSuspended ==
  [][\A batch \in Batches, k \in Tokens, p \in Prices :
       ( /\ Carries(batch, k, p)
         /\ Processing
         /\ Enabled(k)
         /\ configurations[k].respect_market_hours
         /\ ~marketOpen
         /\ TimersOf(k) = {}
         /\ NewTicks(batch) )
       => /\ k \in DOMAIN symbolStates'
          /\ symbolStates'[k].timerId = 0
          /\ {u \in timers' : u.token = k} = {}
          /\ pendingLogs' = pendingLogs
          /\ k \notin DOMAIN symbolStates =>
               /\ symbolStates'[k].baselinePrice = p
               /\ ~symbolStates'[k].wasMarketOpen
    ]_vars

\* a state created while the session was inactive, still unarmed after a
\* later tick, the session still inactive
C5_Witness ==
  \E k \in DOMAIN symbolStates :
     /\ Enabled(k)
     /\ configurations[k].respect_market_hours
     /\ ~marketOpen
     /\ ~symbolStates[k].wasMarketOpen
     /\ symbolStates[k].timerId = 0
     /\ symbolStates[k].priceHistory[1].timestamp = 0
     /\ k \in DOMAIN processedAt /\ processedAt[k] = ClockStep
     /\ TimersOf(k) = {}
     /\ pendingLogs = {} /\ alerts = <<>>

\* C6: a tick processed for an instrument whose configuration is absent or
\* disabled leaves no state and no scheduled timer for it (an existing state
\* is removed and its timer cancelled), leaves it unmarked and emits nothing.
C6_UnmonitoredStaysEmpty ==
  [][\A batch \in Batches, k \in Tokens, p \in Prices :
       ( /\ Carries(batch, k, p)
         /\ Processing
         /\ ~Enabled(k)
         /\ NewTicks(batch) )
       => /\ k \notin DOMAIN symbolStates'
          /\ {u \in timers' : u.token = k} = {}
          /\ k \notin inactiveSymbols'
          /\ pendingLogs' = pendingLogs
          /\ alerts' = alerts
    ]_vars

\* a tick was processed for an instrument without configuration: it has no
\* state now, though a tick had created one in an earlier session
C6_Witness ==
  \E k \in Tokens :
     /\ Processing
     /\ k \notin DOMAIN configurations
     /\ BatchTokens(ticks) = {k}
     /\ k \notin DOMAIN symbolStates
     /\ TimersOf(k) = {}
     /\ \E i \in 1..Len(alerts) : alerts[i].instrument_token = k

\* C7 (as the claim states it): the retained history of every instrument has
\* at most HISTORY_CAP entries and no entry is more than five minutes older
\* than the latest tick processed for the instrument.
C7_HistoryBounded ==
  \A k \in DOMAIN symbolStates :
     LET h == symbolStates[k].priceHistory
     IN  /\ Len(h) <= HISTORY_CAP
         /\ k \in DOMAIN processedAt =>
              \A i \in 1..Len(h) : processedAt[k] - h[i].timestamp <= FIVE_MINUTES_MS

\* C8 (as the claim states it): when clearAllAlerts completes successfully
\* the cache holds no unacknowledged alert, no instrument is marked inactive
\* and no oscillator is playing, referenced by a state or not.
C8_AcknowledgeAllSilences ==
  [][AckAllDone(TRUE) =>
       /\ \A i \in 1..Len(alerts') : alerts'[i].acknowledged
       /\ inactiveSymbols' = {}
       /\ oscillators' = {}
       /\ \A k \in DOMAIN symbolStates' : ~symbolStates'[k].oscillator
    ]_vars

\* C10 (as the claim states it): a timer that elapses while alerting is
\* eligible emits its alert and leaves a new timer scheduled for the token,
\* due one duration later.
C10_FireRearms ==
  [][\A t \in timers :
       ( /\ TimerFire(t)
         /\ (t.config.respect_market_hours => marketOpen)
         /\ t.user # NoUser )
       => /\ pendingLogs' # pendingLogs
          /\ \E u \in timers' :
               u.token = t.token /\ u.due = now + t.config.duration * 1000
    ]_vars

\* C11 (as the claim states it): when the store rejects the insert of a
\* fired alert, the record is still placed at the head of the recent-alerts
\* cache and the instrument is still marked inactive.
C11_RejectedInsertStillRecorded ==
  [][\A p \in pendingLogs :
       LogAlertDone(p, FALSE)
       => /\ Len(alerts') > 0
          /\ alerts'[1].instrument_token = p.alert.instrument_token
          /\ alerts'[1].current_price = p.alert.current_price
          /\ p.alert.instrument_token \in inactiveSymbols'
    ]_vars

\* C12 (as the claim states it): every scheduled timeout callback and every
\* playing oscillator belongs to a token that has a SymbolState.
C12_NoOrphanedResource ==
  /\ \A t \in timers : t.token \in DOMAIN symbolStates
  /\ \A k \in oscillators : k \in DOMAIN symbolStates

\* C13 (as the claim states it): once updateConfiguration has persisted, the
\* token has no pending timer and no SymbolState (none exists again before a
\* new tick is ingested).
C13_SavedConfigurationDestroysState ==
  [][\A token \in Tokens, config \in UserAlertConfig :
       ( /\ token \in pendingSaves
         /\ SaveDone(token, config, TRUE) )
       => /\ token \notin DOMAIN symbolStates'
          /\ \A t \in timers' : t.token # token
    ]_vars

\* the record alertId is already acknowledged, in the cache and in the table
AlreadyAcknowledged(alertId) ==
  /\ \E i \in 1..Len(alerts) : alerts[i].id = alertId
  /\ \A i \in 1..Len(alerts) : alerts[i].id = alertId => alerts[i].acknowledged
  /\ \A i \in 1..Len(logStore) : logStore[i].id = alertId => logStore[i].acknowledged

\* C14 (as the claim states it): a successful acknowledgement of a record
\* that is already acknowledged changes neither the table nor the cache
\* (acknowledged_at keeps its first value).
C14_AcknowledgeIdempotent ==
  [][\A alertId \in pendingAcks :
       ( /\ AlreadyAcknowledged(alertId)
         /\ AckDone(alertId, TRUE) )
       => /\ alerts' = alerts
          /\ logStore' = logStore
    ]_vars

\* the reduction as the claim describes it: for token k, the tick of the
\* batch with the greatest receivedAt, and among those the last one
LastSeenLatest(batch, k) ==
  LET idx  == {i \in 1..Len(batch) : batch[i].instrument_token = k}
      top  == {i \in idx : \A j \in idx : batch[j].receivedAt <= batch[i].receivedAt}
      last == CHOOSE i \in top : \A j \in top : j <= i
  IN  batch[last]

\* C15 (as the claim states it): the ticks the effect processes are exactly
\* one per token of the batch, namely the one with the greatest receivedAt,
\* the last in the batch among equals; an empty batch changes no engine
\* state.
C15_LatestTickLastSeenWins ==
  [][\A batch \in IngestBatches :
       NewTicks(batch)
       => /\ BatchTokens(ticks') = {batch[i].instrument_token : i \in 1..Len(batch)}
          /\ \A i, j \in 1..Len(ticks') :
               ticks'[i].instrument_token = ticks'[j].instrument_token => i = j
          /\ \A i \in 1..Len(ticks') :
               ticks'[i].last_price =
                 LastSeenLatest(batch, ticks'[i].instrument_token).last_price
          /\ batch = <<>> =>
               UNCHANGED <<symbolStates, timers, inactiveSymbols, oscillators,
                           alerts, pendingLogs>>
    ]_vars

\* the cache is ordered most-recent-first
MostRecentFirst(cache) ==
  \A i, j \in 1..Len(cache) : i < j => cache[i].created_at >= cache[j].created_at

\* C16: the recent-alerts cache never holds more records than its cap and is
\* ordered most-recent-first; a fired alert that the table accepted becomes
\* the head of the cache, the records before it follow in their order, and
\* what exceeds the cap is dropped from the end.
C16_CacheCappedNewestFirst ==
  /\ [](Len(alerts) <= ALERTS_CAP /\ MostRecentFirst(alerts))
  /\ [][\A p \in pendingLogs :
          LogAlertDone(p, TRUE)
          => /\ alerts'[1].instrument_token = p.alert.instrument_token
             /\ alerts'[1].created_at = now
             /\ Len(alerts') = IF Len(alerts) < ALERTS_CAP THEN Len(alerts) + 1
                               ELSE ALERTS_CAP
             /\ \A i \in 2..Len(alerts') : alerts'[i] = alerts[i - 1]
       ]_vars

\* the cache is full of fired alerts, the head newer than the one behind it,
\* and the table holds more rows than the cache keeps
C16_Witness ==
  /\ Len(alerts) = ALERTS_CAP
  /\ Len(logStore) > ALERTS_CAP
  /\ \A i \in 1..Len(alerts) : alerts[i].id < 0
  /\ alerts[1].created_at > alerts[2].created_at

\* C17 (as the claim states it): a SymbolState exists only for a token whose
\* configuration is enabled, and processing a tick of a token whose
\* configuration is enabled leaves the token with a SymbolState.
C17_StateIffEnabledAndTicked ==
  /\ [](\A k \in DOMAIN symbolStates : Enabled(k))
  /\ [][\A batch \in Batches, k \in Tokens :
          ( /\ Processing
            /\ Enabled(k)
            /\ \E p \in Prices : Carries(batch, k, p)
            /\ NewTicks(batch) )
          => k \in DOMAIN symbolStates'
       ]_vars

\* the instrument is suspended: it has a state whose timer was cancelled
Suspended(k) == k \in DOMAIN symbolStates /\ symbolStates[k].timerId = 0

\* C18 (as the claim states it): when a tick within the threshold is
\* processed for a suspended instrument while alerting is active again and
\* the session check is due, a timer is pending for the instrument
\* afterwards.
C18_ReopenRearms ==
  [][\A batch \in Batches, k \in Tokens, p \in Prices :
       ( /\ Processing
         /\ Enabled(k)
         /\ configurations[k].respect_market_hours
         /\ marketOpen
         /\ Suspended(k)
         /\ now - symbolStates[k].lastMarketStatusCheck > MARKET_CHECK_MS
         /\ Carries(batch, k, p)
         /\ p - symbolStates[k].baselinePrice <= configurations[k].deviation
         /\ symbolStates[k].baselinePrice - p <= configurations[k].deviation
         /\ NewTicks(batch) )
       => /\ k \in DOMAIN symbolStates'
          /\ \E t \in timers' : t.token = k /\ t.id = symbolStates'[k].timerId
    ]_vars

\* C19: when a timer elapses for a configuration that respects market hours
\* while the session is inactive, no alert is emitted, nothing reaches the
\* table or the cache, no oscillator is started, the token's inactive marker
\* is removed, none of its timers remains and its SymbolState is deleted. (If
\* the marker was set, its removal makes the tick effect run again, which may
\* create a new state from the rendered tick: the state of before is gone
\* all the same.)
C19_StaleTimerClearsSilently ==
  [][\A t \in timers :
       ( /\ t.config.respect_market_hours
         /\ ~marketOpen
         /\ TimerFire(t) )
       => /\ pendingLogs' = pendingLogs
          /\ logStore' = logStore
          /\ alerts' = alerts
          /\ oscillators' = oscillators
          /\ \A k \in DOMAIN symbolStates' :
               symbolStates'[k].oscillator =>
                 k \in DOMAIN symbolStates /\ symbolStates[k].oscillator
          /\ t.token \notin inactiveSymbols'
          /\ \A u \in timers' : u.token = t.token => u \notin timers
          /\ t.token \in DOMAIN symbolStates' =>
               /\ t.token \in inactiveSymbols
               /\ Len(symbolStates'[t.token].priceHistory) = 1
               /\ symbolStates'[t.token].priceHistory[1].timestamp = now
    ]_vars

\* the timer of an instrument whose configuration asks for sound and respects
\* market hours elapsed while the session was inactive: state, timers and
\* marker are gone, nothing was stored and nothing plays
C19_Witness ==
  \E k \in Tokens :
     /\ Enabled(k)
     /\ configurations[k].respect_market_hours
     /\ configurations[k].notification_sound
     /\ audioContext
     /\ ~marketOpen
     /\ BatchTokens(ticks) = {k}
     /\ k \in DOMAIN processedAt
     /\ k \notin DOMAIN symbolStates
     /\ timers = {}
     /\ k \notin inactiveSymbols
     /\ oscillators = {}
     /\ logStore = <<>> /\ pendingLogs = {}
     /\ now >= configurations[k].duration * 1000

\* C20 (as the claim states it): a timeout callback emits an alert only if
\* the configuration map holds, when it runs, an enabled configuration for
\* the token, and the alert carries that configuration's values.
C20_CallbackRevalidates ==
  [][\A t \in timers :
       ( /\ pendingLogs' # pendingLogs
         /\ TimerFire(t) )
       => /\ Enabled(t.token)
          /\ \A p \in pendingLogs' \ pendingLogs :
               /\ p.config = configurations[t.token]
               /\ p.alert.deviation = configurations[t.token].deviation
               /\ p.alert.duration = configurations[t.token].duration
    ]_vars

\* C21 (as the claim states it): when the insert of an alert completes for a
\* token whose SymbolState was destroyed meanwhile, the token is not added
\* to the inactive set and no oscillator is started for it.
C21_NoWriteBackAfterDestroy ==
  [][\A p \in pendingLogs :
       ( /\ p.alert.instrument_token \notin DOMAIN symbolStates
         /\ LogAlertDone(p, TRUE) )
       => /\ p.alert.instrument_token \notin inactiveSymbols'
          /\ oscillators' = oscillators
    ]_vars

\* an alert of token k is between its timer's eligibility check and the end
\* of the fire's bookkeeping
FireInProgress(k) == \E p \in pendingLogs : p.alert.instrument_token = k

\* C22 (as the claim states it): no tick of an instrument is processed while
\* a fire of that instrument is in progress; and a fire never marks inactive
\* an instrument whose baseline a deviating tick has moved beyond the
\* threshold since the alert was built.
C22_FireExclusive ==
  [][/\ \A batch \in Batches, k \in Tokens :
          ( /\ Processing
            /\ Enabled(k)
            /\ FireInProgress(k)
            /\ \E p \in Prices : Carries(batch, k, p)
            /\ NewTicks(batch) )
          => FALSE
     /\ \A p \in pendingLogs :
          LET k == p.alert.instrument_token
          IN  ( /\ k \in DOMAIN symbolStates
                /\ \/ symbolStates[k].baselinePrice - p.alert.baseline_price > p.alert.deviation
                   \/ p.alert.baseline_price - symbolStates[k].baselinePrice > p.alert.deviation
                /\ LogAlertDone(p, TRUE) )
              => k \notin inactiveSymbols'
    ]_vars

\* C23 (as the claim states it): a tick processed less than 60 seconds after
\* the instrument's last session check acts on the status observed then:
\* when that status was active, a tick within the threshold leaves the
\* pending timer of an armed instrument untouched.
C23_SessionCheckThrottled ==
  [][\A batch \in Batches, k \in Tokens, p \in Prices :
       ( /\ Processing
         /\ Enabled(k)
         /\ configurations[k].respect_market_hours
         /\ Armed(k)
         /\ symbolStates[k].wasMarketOpen
         /\ now - symbolStates[k].lastMarketStatusCheck <= MARKET_CHECK_MS
         /\ Carries(batch, k, p)
         /\ p - symbolStates[k].baselinePrice <= configurations[k].deviation
         /\ symbolStates[k].baselinePrice - p <= configurations[k].deviation
         /\ NewTicks(batch) )
       => {t \in timers' : t.token = k} = {t \in timers : t.token = k}
    ]_vars

\* C24 (as the claim states it): when the throttled check of a processed
\* tick finds the session gone from inactive to active for an instrument
\* that has a state, then after
\* the tick the baseline is the tick's price, exactly one timer is pending
\* for the token, due one duration later, the token is not marked inactive
\* and no oscillator plays for it.
C24_ReopeningRearms ==
  [][\A batch \in Batches, k \in Tokens, p \in Prices :
       ( /\ Processing
         /\ Enabled(k)
         /\ k \in DOMAIN symbolStates
         /\ TransitionDetected(k)
         /\ marketOpen
         /\ Carries(batch, k, p)
         /\ NewTicks(batch) )
       => /\ k \in DOMAIN symbolStates'
          /\ symbolStates'[k].baselinePrice = p
          /\ symbolStates'[k].wasMarketOpen
          /\ \E t \in timers' :
               /\ {u \in timers' : u.token = k} = {t}
               /\ t.id = symbolStates'[k].timerId
               /\ t.due = now + configurations[k].duration * 1000
               /\ t.last_price = p
          /\ k \notin inactiveSymbols'
          /\ ~symbolStates'[k].oscillator
          /\ k \notin oscillators'
    ]_vars

\* C25: a tick processed for an instrument that has a state and whose
\* configuration respects market hours, while the session is inactive (the
\* instrument is suspended, or this tick detects the transition to
\* inactive), leaves baselinePrice and priceHistory as they were, whatever
\* its price, and leaves no timer scheduled and no oscillator of the state
\* playing; nothing is emitted.
C25_SuspendedTickFrame ==
  [][\A batch \in Batches, k \in Tokens, p \in Prices :
       ( /\ Processing
         /\ Enabled(k)
         /\ configurations[k].respect_market_hours
         /\ ~marketOpen
         /\ k \in DOMAIN symbolStates
         /\ Carries(batch, k, p)
         /\ NewTicks(batch) )
       => /\ k \in DOMAIN symbolStates'
          /\ symbolStates'[k].baselinePrice = symbolStates[k].baselinePrice
          /\ symbolStates'[k].priceHistory = symbolStates[k].priceHistory
          /\ symbolStates'[k].timerId = 0
          /\ {u \in timers' : u.token = k} = {}
          /\ ~symbolStates'[k].oscillator
          /\ pendingLogs' = pendingLogs
    ]_vars

\* a suspended instrument whose last processed tick, later than its history
\* and beyond the threshold, changed neither baseline nor history
C25_Witness ==
  \E k \in Tokens :
     /\ Enabled(k)
     /\ configurations[k].respect_market_hours
     /\ ~marketOpen
     /\ k \in DOMAIN symbolStates
     /\ BatchTokens(ticks) = {k}
     /\ PriceOf(ticks, k) - symbolStates[k].baselinePrice > configurations[k].deviation
     /\ k \in DOMAIN processedAt
     /\ processedAt[k] > 0
     /\ symbolStates[k].priceHistory = <<[price |-> symbolStates[k].baselinePrice, timestamp |-> 0]>>
     /\ symbolStates[k].timerId = 0
     /\ timers = {}

\* C26 (as the claim states it): a save that the store rejects leaves the
\* configuration map, the SymbolStates and the timers as they were, and a
\* load that fails, by an error the store reports or by an exception,
\* leaves the configuration map as it was.
C26_StoreFailureKeepsConfiguration ==
  [][/\ \A token \in Tokens, config \in PlainConfigs :
          ( /\ token \in pendingSaves
            /\ SaveDone(token, config, FALSE) )
          => UNCHANGED <<configurations, symbolStates, timers>>
     /\ \A stored \in PlainConfigMaps :
          ( /\ pendingLoads > 0
            /\ LoadDone(getUserAlertConfigs(stored, TRUE)) )
          => configurations' = configurations
     /\ LoadThrown => configurations' = configurations
    ]_vars

\* every retained price of the history of k lies within the configured
\* deviation of the baseline
HistoryWithinThreshold(k) ==
  \A i \in 1..Len(symbolStates[k].priceHistory) :
     LET h == symbolStates[k].priceHistory[i].price
     IN  /\ h - symbolStates[k].baselinePrice <= configurations[k].deviation
         /\ symbolStates[k].baselinePrice - h <= configurations[k].deviation

\* C27 (as the claim states it): the history of every SymbolState of a
\* configured instrument stays within the deviation threshold of its
\* baseline, and every emitted alert has a price range no wider than twice
\* its deviation.
C27_HistoryWithinDeviation ==
  /\ [](\A k \in DOMAIN symbolStates \cap DOMAIN configurations : HistoryWithinThreshold(k))
  /\ [][\A t \in timers :
          TimerFire(t)
          => \A q \in pendingLogs' \ pendingLogs :
               q.alert.price_range.max - q.alert.price_range.min <= 2 * q.alert.deviation
       ]_vars

\* C28 (as the claim states it): the current_price of an emitted alert is the
\* price of the last tick processed for the instrument before the timer
\* elapsed, which is the last entry of the history of its state.
C28_CurrentPriceIsLatestTick ==
  [][\A t \in timers :
       ( /\ t.token \in DOMAIN symbolStates
         /\ symbolStates[t.token].timerId = t.id
         /\ TimerFire(t) )
       => \A q \in pendingLogs' \ pendingLogs :
            LET h == symbolStates[t.token].priceHistory
            IN  q.alert.current_price = h[Len(h)].price
    ]_vars

\* C29 (as the claim states it): while no user is signed in no timer is
\* pending, and no timer run then hands an alert to the store.
C29_SignOutStopsTimers ==
  /\ [](user = NoUser => timers = {})
  /\ [][\A t \in timers :
          ( /\ user = NoUser
            /\ TimerFire(t) )
          => pendingLogs' = pendingLogs
       ]_vars

\* C30 (as the claim states it): when the tick effect runs again on the
\* unchanged ticks because the inactive set changed, here on the successful
\* completion of an alert's insert, every SymbolState keeps its history, its
\* baseline and its timer.
C30_ReprocessingIdempotent ==
  [][\A p \in pendingLogs :
       LogAlertDone(p, TRUE)
       => /\ DOMAIN symbolStates' = DOMAIN symbolStates
          /\ \A k \in DOMAIN symbolStates :
               /\ symbolStates'[k].priceHistory = symbolStates[k].priceHistory
               /\ symbolStates'[k].baselinePrice = symbolStates[k].baselinePrice
               /\ symbolStates'[k].timerId = symbolStates[k].timerId
          /\ timers' = timers
    ]_vars

====
